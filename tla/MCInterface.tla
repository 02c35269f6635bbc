---------------------------- MODULE MCInterface ----------------------------
(* Instances of Interface for TLC.                                         *)
EXTENDS Interface

CONSTANTS me, n1, n2, none

\* n1's router ID is lower than ours, n2's is higher.
Ids == [r \in {me, n1, n2} |-> IF r = n1 THEN 1 ELSE IF r = me THEN 2 ELSE 3]

\* A neighbour claims to be DR or leaves that to nobody, and claims to be
\* BDR, or leaves that to nobody or to us.  One of priority 0 claims nothing.
Claims ==
    [n \in Nbr |->
        {h \in [dr : {n, NoRouter}, bdr : {n, NoRouter, Me},
                pri : Priorities, seen : BOOLEAN] :
            h.pri = 0 => h.dr # n /\ h.bdr # n}]
=============================================================================
