--------------------------- MODULE ExchangeThreads ---------------------------
(***************************************************************************)
(* Exchange with its two threads at the grain of produce_dd, which either  *)
(* may be in while the other acts on the same neighbour.  send_loop enters *)
(* it when it has seen EXSTART, recv_loop when a DD makes us slave and for *)
(* every DD it accepts.  There is no lock: the second test of dd_init, the *)
(* size of the summary list, the move of the shared iterator, the copying  *)
(* of headers, the end of the exchange and the clearing are steps of their *)
(* own.  What recv_loop does with a packet before it replies is one step.  *)
(*                                                                         *)
(* std::list and its iterators promise nothing if one thread changes them  *)
(* while another uses them: the iterator may then point anywhere or to no  *)
(* element, and the process may die.  The packet that both threads write   *)
(* into is not followed, since this router never reads it back.            *)
(***************************************************************************)
EXTENDS Exchange

VARIABLE making  \* making[t]: where thread t is in produce_dd

threadsVars == <<vars, making>>

-----------------------------------------------------------------------------
(* Where a thread is.                                                      *)

Loops == {"recv", "send"}
Away == [pc |-> "away"]
MakingPcs == {"init", "size", "advance", "move", "copy", "rest", "copy_rest",
              "ends", "done", "clear"}

\* raced: the other thread has changed the summary list or the send iterator
\* since the last step of this one.
Making(pc, n) == [pc |-> pc, nbr |-> n, raced |-> FALSE]
Places == {Away} \cup [pc : MakingPcs, nbr : Nbr, raced : BOOLEAN]

In(t, pc, n) ==
    /\ Running
    /\ making[t] # Away /\ making[t].pc = pc /\ making[t].nbr = n

ListChanged(n) ==
    \/ nbr'[n].db_summary_list # nbr[n].db_summary_list
    \/ nbr'[n].db_summary_send_iter # nbr[n].db_summary_send_iter

\* Thread t is at place next, and its step may race with the other's.
Moves(t, next) ==
    making' = [u \in Loops |->
                 IF u = t THEN next
                 ELSE IF making[u] # Away /\ ListChanged(making[u].nbr)
                      THEN [making[u] EXCEPT !.raced = TRUE] ELSE making[u]]

Goes(t, n, pc) == Moves(t, Making(pc, n)) /\ UNCHANGED sender

\* produce_dd returns and the packet is sent.
Leaves(t, n) ==
    /\ Moves(t, Away)
    /\ sender' = IF t = "send" THEN At("rxmt", n) ELSE sender

router == <<nbr, lsdb, amDR, halted>>

Becomes(n, r) ==
    /\ nbr' = [nbr EXCEPT ![n] = r]
    /\ UNCHANGED <<lsdb, amDR, halted>>

Breaks == Halt("iterator") /\ UNCHANGED making

-----------------------------------------------------------------------------
(* produce_dd, by thread t for neighbour n.  The flags and the number are  *)
(* read before the first step.                                             *)

TestInit(t, n) ==
    /\ In(t, "init", n)
    /\ UNCHANGED router
    /\ IF nbr[n].dd_init THEN Leaves(t, n) ELSE Goes(t, n, "size")

TestSize(t, n) ==
    /\ In(t, "size", n)
    /\ UNCHANGED router
    /\ Goes(t, n, IF Len(nbr[n].db_summary_list) > MaxHdr THEN "advance"
                                                          ELSE "rest")

\* std::advance reads the iterator ...
ReadIterator(t, n) ==
    /\ In(t, "advance", n)
    /\ IF nbr[n].db_summary_send_iter = NoIter THEN Breaks
       ELSE UNCHANGED router /\ Goes(t, n, "move")

\* ... and writes it, MaxHdr nodes further.
MoveIterator(t, n) ==
    /\ In(t, "move", n)
    /\ \E i \in IF making[t].raced
                THEN {NoIter} \cup 0 .. Len(nbr[n].db_summary_list)
                ELSE {Advanced(nbr[n])} :
          Becomes(n, [nbr[n] EXCEPT !.db_summary_send_iter = i])
    /\ Goes(t, n, "copy")

\* The headers up to the iterator, as it is now.
CopyFirst(t, n) ==
    /\ In(t, "copy", n)
    /\ nbr[n].db_summary_send_iter # NoIter
    /\ UNCHANGED router
    /\ Leaves(t, n)

IteratorToEnd(t, n) ==
    /\ In(t, "rest", n)
    /\ Becomes(n, [nbr[n] EXCEPT !.db_summary_send_iter = 0])
    /\ Goes(t, n, "copy_rest")

CopyRest(t, n) ==
    /\ In(t, "copy_rest", n)
    /\ UNCHANGED router
    /\ Goes(t, n, "ends")

\* A walk over a list that changes, or to an iterator that is none of its.
WalkFails(t, n) ==
    /\ \/ In(t, "copy", n) /\ nbr[n].db_summary_send_iter = NoIter
       \/ /\ \E pc \in {"move", "copy", "copy_rest"} : In(t, pc, n)
          /\ making[t].raced
    /\ Breaks

TestEnd(t, n) ==
    /\ In(t, "ends", n)
    /\ UNCHANGED router
    /\ IF nbr[n].is_master /\ nbr[n].dd_recv_no_more THEN Goes(t, n, "done")
                                                     ELSE Leaves(t, n)

\* event_exchange_done, with its assertion.
EndExchange(t, n) ==
    /\ In(t, "done", n)
    /\ IF nbr[n].state = "EXCHANGE"
       THEN Update(n, ExchangeDone(nbr[n])) /\ Goes(t, n, "clear")
       ELSE Halt("exchange_done") /\ UNCHANGED making

ClearSummary(t, n) ==
    /\ In(t, "clear", n)
    /\ Becomes(n, [nbr[n] EXCEPT
                     !.db_summary_list = <<>>,
                     !.db_summary_send_iter = IF @ = 0 THEN 0 ELSE NoIter])
    /\ Leaves(t, n)

ProduceDD(t, n) ==
    \/ TestInit(t, n)
    \/ TestSize(t, n)
    \/ ReadIterator(t, n)
    \/ MoveIterator(t, n)
    \/ CopyFirst(t, n)
    \/ IteratorToEnd(t, n)
    \/ CopyRest(t, n)
    \/ WalkFails(t, n)
    \/ TestEnd(t, n)
    \/ EndExchange(t, n)
    \/ ClearSummary(t, n)

-----------------------------------------------------------------------------
(* recv_loop: the handlers of Exchange, those that reply up to where they  *)
(* call produce_dd.                                                        *)

Answers(n, r) == Becomes(n, r) /\ Goes("recv", n, "init")

ObeyMaster(n, p) ==
    /\ Running
    /\ Entered(n, p).state = "EXSTART"
    /\ AcceptsMaster(n)
    /\ \E hdrs \in HeaderLists :
          /\ Len(Opened(n, p).db_summary_list \o hdrs) <= MaxSummary
          /\ Answers(n, NegotiationDone([Opened(n, p) EXCEPT
                                            !.is_master = TRUE,
                                            !.dd_seq_num = p.seq,
                                            !.dd_init = FALSE], hdrs))

\* The part of process_dd after the switch.
Take(n, r, p) ==
    LET s == Heard(Erased(r), p) IN
    IF r.db_summary_send_iter = NoIter THEN Breaks
    ELSE /\ \A k \in Keys : s.link_state_request_list[k] <= MaxRequest
         /\ IF ~s.is_master /\ s.db_summary_list = <<>> /\ s.dd_recv_no_more
            THEN Update(n, ExchangeDone(s)) /\ UNCHANGED sender
                                            /\ Moves("recv", Away)
            ELSE Answers(n, s)

LeadSlave(n, p) ==
    /\ Running
    /\ Entered(n, p).state = "EXSTART"
    /\ AcceptsSlave(n, p)
    /\ \E hdrs \in HeaderLists :
          LET r == NegotiationDone([Opened(n, p) EXCEPT
                                       !.is_master = FALSE,
                                       !.dd_init = FALSE], hdrs)
          IN  /\ Len(r.db_summary_list) <= MaxSummary
              /\ IF Duplicate(n, p)
                 THEN Becomes(n, r) /\ UNCHANGED sender /\ Moves("recv", Away)
                 ELSE Take(n, Advance(r), p)

TakeNext(n, p) ==
    /\ Running
    /\ nbr[n].state = "EXCHANGE" /\ ~Duplicate(n, p)
    /\ ~Mismatch(nbr[n], p)
    /\ p.options = nbr[n].dd_options /\ p.seq = Expected(nbr[n])
    /\ Take(n, Advance(Noted(n, p)), p)

\* What is handled without a reply of produce_dd.
Handle(n) ==
    /\ \/ FromUnknown(n)
       \/ \E seen, adj, changed \in BOOLEAN, elections \in 0 .. 2 :
             ReceiveHello(n, seen, adj, elections, changed)
       \/ HelloFatal(n)
       \/ \E p \in Packets :
             \/ DDTooEarly(n, p)
             \/ DDUnanswered(n, p)
             \/ DDDuplicate(n, p)
             \/ DDMismatch(n, p)
             \/ DDAfterExchange(n, p)
       \/ \E asked \in Asks : LSRAnswered(n, asked) \/ BadLSReq(n, asked)
       \/ \E lsas \in Updates :
             \/ \E newer \in SUBSET lsas : ReceiveLSU(n, lsas, newer)
             \/ LSUOtherType(n, lsas)
    /\ Moves("recv", Away)

\* recv_loop handles a packet when it is done with the one before.
RecvStep(n) ==
    /\ making["recv"] = Away
    /\ \/ Handle(n)
       \/ \E p \in Packets : ObeyMaster(n, p) \/ LeadSlave(n, p) \/ TakeNext(n, p)

\* send_loop's visit, with produce_dd in the place of SendDD.
SendStep(n) ==
    \/ /\ Visit(n)
       /\ making' = [making EXCEPT !["send"] =
                        IF sender' = At("dd", n) THEN Making("init", n) ELSE Away]
    \/ /\ \/ Retransmit(n)
          \/ SendLSR(n)
          \/ TestLoading(n)
          \/ AssertLoading(n)
          \/ LoadingDone(n)
       /\ UNCHANGED making

ThreadsInit == Init /\ making = [t \in Loops |-> Away]

ThreadsNext ==
    \E n \in Nbr :
        \/ RecvStep(n)
        \/ SendStep(n)
        \/ \E t \in Loops : ProduceDD(t, n)

ThreadsSpec == ThreadsInit /\ [][ThreadsNext]_threadsVars

-----------------------------------------------------------------------------
(* Properties.                                                             *)

\* Every variable has its type: whatever the two threads do to the shared
\* iterator, the model's position stays one of the list's, its end or none.
ThreadsTypeOK == TypeOK /\ making \in [Loops -> Places]

\* neighbor.hpp:76, docs/2-design.md:572: db_summary_list is not used by two
\* threads at once and needs no lock.  Two that only read it would do no harm:
\* one of the two is about to change it or the iterator.
InSummary(t, n) ==
    /\ making[t] # Away /\ making[t].nbr = n
    /\ making[t].pc \notin {"init", "ends", "done"}
SummaryUnshared ==
    \A n \in Nbr :
        InSummary("recv", n) /\ InSummary("send", n)
        => \A t \in Loops : making[t].pc \notin {"move", "rest", "clear"}
=============================================================================
