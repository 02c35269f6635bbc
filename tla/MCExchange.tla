----------------------------- MODULE MCExchange -----------------------------
(* Instances of Exchange for TLC.                                          *)
EXTENDS Exchange, TLC

CONSTANTS n1, n2, r0, r1, w0, x1

TwoNbrs == {n1, n2}
FirstNbr == {n1}
TwoRouters == {r0, r1}
OwnNet == {w0}
OneOther == {x1}

\* Every LSA has a link state ID and advertising router of its own.
Distinct == [k \in Keys |-> k]

DD(ms, m, i, hdrs) ==
    {[ms |-> ms, m |-> m, i |-> i, seq |-> seq, options |-> o, hdrs |-> hdrs] :
        seq \in SeqNums, o \in Options}

\* Packets of a master and of a slave, listing r1 or nothing; an offer.  Other
\* options are in a few.
Offers == DD(TRUE, TRUE, TRUE, {})
MasterDDs ==
    UNION {DD(TRUE, m, FALSE, hdrs) : m \in BOOLEAN, hdrs \in {{}, {r1}}}
SlaveDDs ==
    UNION {DD(FALSE, m, FALSE, hdrs) : m \in BOOLEAN, hdrs \in {{}, {r1}}}
SomeDDs ==
    {p \in Offers \cup MasterDDs \cup SlaveDDs :
        p.options = 0 \/ (~p.ms /\ ~p.m /\ p.hdrs = {})}

JustR1 == {{r1}}
MixedUpdates == {{r1}, {r1, x1}}

\* n1 makes us slave and n2 master; one of them is there, and nothing follows
\* the death of the process.
OneNeighbor ==
    /\ Running
    /\ \E m \in Nbr : \A n \in Nbr \ {m} : nbr[n] = NewNeighbor(0)
=============================================================================
