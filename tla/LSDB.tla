-------------------------------- MODULE LSDB --------------------------------
(* The link state database of one router: lsdb.cpp, the comparison of two  *)
(* LSAs in packet.hpp, and the callers that put LSAs in (process_lsu and   *)
(* the macros MAKE_ROUTER_LSA and MAKE_NETWORK_LSA) or take them out       *)
(* (process_lsr).  Every operation runs under the database's mutex and is  *)
(* one action; process_lsu takes it once per LSA of a packet, so its LSAs  *)
(* and the ones made by send_loop interleave.                              *)
(*                                                                         *)
(* Other routers may send any instance of their LSAs in any order, as      *)
(* flooding and retransmission do, and any instance of ours that left this *)
(* router, in this life or an earlier one.                                 *)
EXTENDS Integers, SequencesExt

CONSTANTS
    Types,        \* "router", "network", "summary": one list each
    Keys,         \* (type, link state ID, advertising router)
    TypeOf,       \* TypeOf[k]
    OwnKeys,      \* keys of the LSAs this router makes
    SeqSpace,     \* LSA sequence numbers are modulo this (2^32)
    Sums,         \* values of the checksum
    MaxMade,      \* bound: lsa_seq_num
    MaxStored     \* bound: length of a list

Seqs == 0 .. SeqSpace - 1

ASSUME DatabaseAssumption ==
    /\ TypeOf \in [Keys -> Types] /\ OwnKeys \subseteq Keys
    /\ SeqSpace \in Nat \ {0} /\ Sums \subseteq Int
    /\ MaxMade \in Nat /\ MaxStored \in Nat

VARIABLES
    lists,        \* lists[t]: router_lsas, network_lsas, summary_lsas
    lsa_seq_num,  \* the next sequence number, wider than the LSA's field
    afloat,       \* our LSAs that other routers may hold
    inOrder       \* history: every instance of k was newer than those before

vars == <<lists, lsa_seq_num, afloat, inOrder>>

LSAs == [key : Keys, seq : Seqs, sum : Sums]

-----------------------------------------------------------------------------
(* The operations on a list.                                               *)

\* LSA::Base::operator>: both numbers are unsigned.
Newer(a, b) == a.seq > b.seq \/ (a.seq = b.seq /\ a.sum > b.sum)

Matches(s, k) == {i \in DOMAIN s : s[i].key = k}
Instances(s, k) == {s[i] : i \in Matches(s, k)}

\* std::find_if: the position of the first match.
IsFirst(s, k, i) == i \in Matches(s, k) /\ \A j \in Matches(s, k) : i <= j
First(s, k) == CHOOSE i \in Matches(s, k) : IsFirst(s, k, i)

\* get, get_router_lsa, get_network_lsa: {} for nullptr.
Get(s, k) == IF Matches(s, k) = {} THEN {} ELSE {s[First(s, k)]}

Del(s, k) == IF Matches(s, k) = {} THEN s ELSE RemoveAt(s, First(s, k))

\* Mutants: the comparison is dropped; the old instance stays.
AddReplacing(s, lsa) == Append(Del(s, lsa.key), lsa)
AddOnly(s, lsa) == Append(s, lsa)
\* add: the first match goes when the new instance is newer than it; the new
\* one is appended in any case.
Add(s, lsa) ==
    IF \E old \in Get(s, lsa.key) : Newer(lsa, old)
    THEN Append(Del(s, lsa.key), lsa)
    ELSE Append(s, lsa)

-----------------------------------------------------------------------------
(* The steps of the router.                                                *)

\* lsa_seq_num starts at 0x80000001.
InitialSeq == SeqSpace \div 2 + 1

Init ==
    /\ lists = [t \in Types |-> <<>>]
    /\ lsa_seq_num = InitialSeq
    /\ afloat = {}
    /\ inOrder = [k \in Keys |-> TRUE]

List(k) == lists[TypeOf[k]]

Put(s, lsa) ==
    /\ Len(s) <= MaxStored
    /\ lists' = [lists EXCEPT ![TypeOf[lsa.key]] = s]
    /\ inOrder' = [inOrder EXCEPT ![lsa.key] =
          @ /\ \A old \in Instances(List(lsa.key), lsa.key) : Newer(lsa, old)]

\* process_lsu, one LSA.
ReceiveLSA(lsa) ==
    /\ lsa.key \in OwnKeys => lsa \in afloat
    /\ Put(Add(List(lsa.key), lsa), lsa)
    /\ UNCHANGED <<lsa_seq_num, afloat>>

\* Mutant: the counter is not cut.
MadeWide(k, sum) == [key |-> k, seq |-> lsa_seq_num, sum |-> sum]
\* The LSA make_router_lsa or make_network_lsa makes: the counter is cut to
\* the width of the field.
Made(k, sum) == [key |-> k, seq |-> lsa_seq_num % SeqSpace, sum |-> sum]

\* make_lsa when the database has no instance: nothing is flooded.
MakeFirst(k, sum) ==
    /\ Get(List(k), k) = {}
    /\ lsa_seq_num < MaxMade
    /\ lsa_seq_num' = lsa_seq_num + 1
    /\ Put(Append(List(k), Made(k, sum)), Made(k, sum))
    /\ UNCHANGED afloat

\* make_lsa otherwise.  Whether flood_lsa sends anything depends on the
\* states of the interfaces.
MakeNext(k, sum) ==
    /\ Get(List(k), k) # {}
    /\ lsa_seq_num < MaxMade
    /\ lsa_seq_num' = lsa_seq_num + 1
    /\ Put(Add(List(k), Made(k, sum)), Made(k, sum))
    /\ afloat' \in {afloat, afloat \cup {Made(k, sum)}}

\* process_lsr and produce_lsu: the instance that is found is sent.
AnswerLSR(k) ==
    /\ TypeOf[k] = "router"
    /\ k \in OwnKeys
    /\ afloat' = afloat \cup Get(List(k), k)
    /\ UNCHANGED <<lists, lsa_seq_num, inOrder>>

\* The process ends and is started again: nothing is kept on disk.
Restart ==
    /\ lists' = [t \in Types |-> <<>>]
    /\ lsa_seq_num' = InitialSeq
    /\ inOrder' = [k \in Keys |-> TRUE]
    /\ UNCHANGED afloat

Next ==
    \/ \E lsa \in LSAs : ReceiveLSA(lsa)
    \/ \E k \in OwnKeys, sum \in Sums : MakeFirst(k, sum) \/ MakeNext(k, sum)
    \/ \E k \in OwnKeys : AnswerLSR(k)
    \/ Restart

Spec == Init /\ [][Next]_vars

-----------------------------------------------------------------------------
(* Properties.                                                             *)

TypeOK ==
    /\ lists \in [Types -> Seq(LSAs)]
    /\ \A t \in Types : \A i \in DOMAIN lists[t] : TypeOf[lists[t][i].key] = t
    /\ lsa_seq_num \in Nat
    /\ afloat \subseteq LSAs
    /\ inOrder \in [Keys -> BOOLEAN]

\* The instances of a key that no other one in the database is newer than.
Newest(s, k) ==
    {lsa \in Instances(s, k) : \A other \in Instances(s, k) : ~Newer(other, lsa)}

\* Whatever is appended beside what, and though add and del see only the
\* first match, no key loses its newest instance, and the newest changes
\* only to a newer one: the database implements Store, read by its newest
\* instances.
Kept == INSTANCE Store WITH best <- [k \in Keys |-> Newest(List(k), k)]
KeepsNewest == Kept!Spec

\* A key whose instances came in order, each newer than those before, with
\* no copy and no instance from before a restart among them, has a single
\* instance, so that lookups find the newest.
SingleInOrder ==
    \A k \in Keys :
        inOrder[k] => \A i, j \in Matches(List(k), k) : i = j

=============================================================================
